---- MODULE Spec2Model ----
(***************************************************************************)
(* Model of the console logger (class Logger): the process-wide level,     *)
(* level operator and alignment categories, the per-instance isEnabled     *)
(* flag, the NO_LOG environment variable, and the logging entry points     *)
(* log / debug / info / warn / error / fatal / logMessage / message /      *)
(* newline.  Strings are sequences of one-character strings; a few opaque  *)
(* pieces of text (colour escape codes, a formatted timestamp) are single  *)
(* tokens inside such a sequence.                                          *)
(***************************************************************************)
EXTENDS Integers, Sequences, FiniteSets, TLC

VARIABLES level, levelOperator, alignmentCategories, isEnabled, noLog, call

vars == <<level, levelOperator, alignmentCategories, isEnabled, noLog, call>>

(***************************************************************************)
(* LogLevel, LogLevelOperator, TimestampFormat                             *)
(***************************************************************************)
DEBUG == 0
INFO == 1
WARN == 2
ERROR == 3
FATAL == 4

LogLevel == {DEBUG, INFO, WARN, ERROR, FATAL}

EQUAL == "EQUAL"
GREATER_OR_EQUAL == "GREATER_OR_EQUAL"
LESS_OR_EQUAL == "LESS_OR_EQUAL"

\* The three members of the enumeration.
LogLevelOperator == {EQUAL, GREATER_OR_EQUAL, LESS_OR_EQUAL}

\* A value of the static field that is none of the three members (the field
\* is a public mutable static; an untyped caller can store anything in it).
UNKNOWN_OPERATOR == "UNKNOWN_OPERATOR"

TimestampNONE == "_none"
TimestampCONDENSED_12 == "dd/MM/yyyy @ hh:mm:ss aa zzzz"

(***************************************************************************)
(* Strings and values                                                      *)
(***************************************************************************)
\* JavaScript's undefined, where a string is expected.
Undefined == <<"undefined">>

\* Truthiness of an optional string: undefined and "" are falsy.
TruthyStr(s) == s # Undefined /\ s # <<>>

\* " ".repeat(n) for n >= 0.
Spaces(n) == [i \in 1..n |-> " "]

Digit == <<"0", "1", "2", "3", "4", "5", "6", "7", "8", "9">>

RECURSIVE NumStr(_)
\* String(n) of a natural number.
NumStr(n) == IF n < 10 THEN <<Digit[n + 1]>> ELSE NumStr(n \div 10) \o <<Digit[(n % 10) + 1]>>

\* Context values: undefined, scalars, plain objects (ordered key/value
\* pairs, as Object.entries lists them) and arrays.
CtxUndefined == [t |-> "undefined"]
Num(n) == [t |-> "num", n |-> n]
Bool(b) == [t |-> "bool", b |-> b]
Str(s) == [t |-> "str", s |-> s]
Obj(pairs) == [t |-> "obj", pairs |-> pairs]
Arr(items) == [t |-> "arr", items |-> items]

isPlainObject(v) == v.t = "obj"
isArray(v) == v.t = "arr"

\* JavaScript truthiness of a context value, the test of `if (ctx)`.
Truthy(v) ==
    CASE v.t = "undefined" -> FALSE
      [] v.t = "num" -> v.n # 0
      [] v.t = "bool" -> v.b
      [] v.t = "str" -> v.s # <<>>
      [] OTHER -> TRUE

\* String(value) of a scalar.
String(v) ==
    CASE v.t = "undefined" -> <<"u", "n", "d", "e", "f", "i", "n", "e", "d">>
      [] v.t = "num" -> NumStr(v.n)
      [] v.t = "bool" -> IF v.b THEN <<"t", "r", "u", "e">> ELSE <<"f", "a", "l", "s", "e">>
      [] OTHER -> v.s

(***************************************************************************)
(* string.utils                                                            *)
(***************************************************************************)
SetMax(S) == CHOOSE m \in S : \A n \in S : n <= m

\* Math.max over the lengths; only ever applied to a non-empty list.
maxLength(strs) == SetMax({Len(strs[i]) : i \in 1..Len(strs)})

minLengthOrApplyTrailingPad(str, length) ==
    IF Len(str) >= length THEN str ELSE str \o Spaces(length - Len(str))

(***************************************************************************)
(* Colours (@std/fmt/colors): the text between an opening and a closing    *)
(* escape code, each one token.                                            *)
(***************************************************************************)
Colour(name, text) == <<"<" \o name \o ">">> \o text \o <<"</" \o name \o ">">>

colorizer(lvl) ==
    CASE lvl = DEBUG -> "cyan"
      [] lvl = INFO -> "blue"
      [] lvl = WARN -> "yellow"
      [] lvl = ERROR -> "red"
      [] lvl = FATAL -> "red"

symbols ==
    << <<"[", "D", "E", "B", "U", "G", "]">>,
       <<"[", "I", "N", "F", "O", "]">>,
       <<"[", "W", "A", "R", "N", "]">>,
       <<"[", "E", "R", "R", "O", "R", "]">>,
       <<"[", "F", "A", "T", "A", "L", "]">> >>

symbol(lvl) ==
    Colour(colorizer(lvl), minLengthOrApplyTrailingPad(symbols[lvl + 1], maxLength(symbols)))

(***************************************************************************)
(* formatValue / formatObjectValue / formatArrayValue                      *)
(***************************************************************************)
indent == 2

RECURSIVE formatValue(_, _, _)
RECURSIVE ObjectLoop(_, _, _, _)
RECURSIVE ArrayLoop(_, _, _, _)

\* The for loop of formatObjectValue from index i on: the text it appends.
ObjectLoop(pairs, compact, depth, i) ==
    IF i > Len(pairs) THEN <<>>
    ELSE LET key == pairs[i][1]
             value == formatValue(pairs[i][2], compact, depth + 1)
             isLast == (i = Len(pairs))
             comma == IF isLast THEN <<>> ELSE <<",">>
         IN  (IF compact
              THEN <<" ">> \o key \o <<":", " ">> \o value \o comma
              ELSE Spaces(indent * depth) \o key \o <<":", " ">> \o value \o comma \o <<"\n">>)
             \o ObjectLoop(pairs, compact, depth, i + 1)

\* The for loop of formatArrayValue from index i on: the text it appends.
ArrayLoop(arr, compact, depth, i) ==
    IF i > Len(arr) THEN <<>>
    ELSE LET isLast == (i = Len(arr))
             value == formatValue(arr[i], compact, depth + 1)
         IN  (IF compact
              THEN value \o (IF isLast THEN <<>> ELSE <<",", " ">>)
              ELSE Spaces(indent * depth) \o value \o (IF isLast THEN <<>> ELSE <<",">>) \o <<"\n">>)
             \o ArrayLoop(arr, compact, depth, i + 1)

\* A closing bracket indented like the entries.
bracketIndentOfEntries(depth) == Spaces(indent * depth)

\* propertyIndent.substring(0, propertyIndent.length - indent)
bracketIndent(depth) == SubSeq(Spaces(indent * depth), 1, (indent * depth) - indent)

\* formatObjectValue that closes the compact form without the space.
formatObjectValueTight(obj, compact, depth) ==
    IF compact
    THEN <<"{">> \o ObjectLoop(obj.pairs, compact, depth, 1) \o <<"}">>
    ELSE <<"{", "\n">> \o ObjectLoop(obj.pairs, compact, depth, 1) \o bracketIndent(depth) \o <<"}">>

formatObjectValue(obj, compact, depth) ==
    IF compact
    THEN <<"{">> \o ObjectLoop(obj.pairs, compact, depth, 1) \o <<" ", "}">>
    ELSE <<"{", "\n">> \o ObjectLoop(obj.pairs, compact, depth, 1) \o bracketIndent(depth) \o <<"}">>

formatArrayValue(arr, compact, depth) ==
    IF compact
    THEN <<"[">> \o ArrayLoop(arr.items, compact, depth, 1) \o <<"]">>
    ELSE <<"[", "\n">> \o ArrayLoop(arr.items, compact, depth, 1) \o bracketIndent(depth) \o <<"]">>

formatValue(value, compact, depth) ==
    IF isPlainObject(value) THEN formatObjectValue(value, compact, depth)
    ELSE IF isArray(value) THEN formatArrayValue(value, compact, depth)
    ELSE String(value)

(***************************************************************************)
(* Logger instances: constructor arguments and the merged options          *)
(***************************************************************************)
LoggerOptionDefaults ==
    [timestampFormat |-> TimestampCONDENSED_12,
     messageDelimiter |-> <<":", ":">>,
     compactContext |-> "false"]

\* A merge in which a delimiter given as undefined keeps the default.
SpreadSkipsUndefined(defaults, given) ==
    [k \in (DOMAIN defaults) \cup (DOMAIN given) |->
        IF k \in DOMAIN given /\ ~(k = "messageDelimiter" /\ given[k] = Undefined)
        THEN given[k] ELSE defaults[k]]

\* { ...LoggerOptionDefaults, ...options }: a key the caller gives, even with
\* the value undefined, replaces the default.
Spread(defaults, given) ==
    [k \in (DOMAIN defaults) \cup (DOMAIN given) |->
        IF k \in DOMAIN given THEN given[k] ELSE defaults[k]]

\* The instances of the model: new Logger("Test") and
\* new Logger(undefined, { timestampFormat: NONE, messageDelimiter: undefined,
\* compactContext: true }).
Instances == {"logger", "bare"}

\* Further instances, used where only the rendering matters:
\* new Logger("", { messageDelimiter: "*" }) (a one-character delimiter stands
\* for the star of the test), new Logger("", { messageDelimiter: undefined })
\* and new Logger("Database").
RenderInstances == Instances \cup {"star", "plain", "db"}

CategoryOf(self) ==
    CASE self = "logger" -> <<"T", "e", "s", "t">>
      [] self = "bare" -> Undefined
      [] self = "db" -> <<"D", "a", "t", "a", "b", "a", "s", "e">>
      [] OTHER -> <<>>

GivenOptions(self) ==
    CASE self = "bare" -> [timestampFormat |-> TimestampNONE,
                           messageDelimiter |-> Undefined,
                           compactContext |-> "true"]
      [] self = "star" -> [messageDelimiter |-> <<"*">>]
      [] self = "plain" -> [messageDelimiter |-> Undefined]
      [] OTHER -> <<>>

\* this.options after the constructor ran.
options(self) == Spread(LoggerOptionDefaults, GivenOptions(self))

\* this.options.compactContext ?? LoggerOptionDefaults.compactContext
compactContext(self) ==
    IF options(self)["compactContext"] = "undefined"
    THEN LoggerOptionDefaults["compactContext"] = "true"
    ELSE options(self)["compactContext"] = "true"

(***************************************************************************)
(* formatMessage                                                           *)
(***************************************************************************)
\* DateUtils.format(date, format): an opaque rendering of the instant under
\* the pattern.
DateUtilsFormat(date, format) == <<format, "@">> \o NumStr(date)

\* category?.length ?? 0
categoryLength(category) == IF category = Undefined THEN 0 ELSE Len(category)

\* In the operators below `align` is the value Logger.alignmentCategories
\* holds when formatMessage runs.

\* A count without the three columns of " [" and "]".
padCountWithoutBrackets(align, category) == maxLength(align) - categoryLength(category)

\* The argument of " ".repeat(count) in the alignment branch.
padCount(align, category) ==
    IF TruthyStr(category)
    THEN maxLength(align) - categoryLength(category)
    ELSE (maxLength(align) - categoryLength(category)) + 3

\* (Logger.alignmentCategories?.length ?? 0) > 0
hasAlignment(align) == Len(align) > 0

\* String.prototype.repeat throws a RangeError on a negative count.
formatMessageThrows(align, category) == hasAlignment(align) /\ padCount(align, category) < 0

RangeErrorMessage == <<"Invalid count value">>

\* The text formatMessage returns when it does not throw.
formatMessage(align, self, lvl, message, date, category, ctx) ==
    LET delimiter == options(self)["messageDelimiter"]
        head == IF options(self)["timestampFormat"] # TimestampNONE
                THEN symbol(lvl) \o <<" ">>
                     \o Colour("white", DateUtilsFormat(date, options(self)["timestampFormat"]))
                ELSE symbol(lvl)
        cat == IF TruthyStr(category)
               THEN <<" ">> \o Colour("yellow", <<"[">> \o category \o <<"]">>)
               ELSE <<>>
        pad == IF hasAlignment(align) THEN Spaces(padCount(align, category)) ELSE <<>>
        sep == IF TruthyStr(delimiter) THEN <<" ">> \o delimiter \o <<" ">> ELSE <<" ">>
        body == sep \o Colour(colorizer(lvl), message)
        context == IF Truthy(ctx)
                   THEN sep \o Colour("gray", formatValue(ctx, compactContext(self), 1))
                   ELSE <<>>
    IN  head \o cat \o pad \o body \o context

(***************************************************************************)
(* Log messages, console effects, the gate and _log                        *)
(***************************************************************************)
\* The LogMessage object that message() builds.
LogMessageOf(message, formatted, lvl, date, category, ctx) ==
    [message |-> message, formatted |-> formatted, level |-> lvl,
     date |-> date, category |-> category, ctx |-> ctx]

\* No LogMessage: the value undefined where a LogMessage is expected.
NoRecord == [none |-> TRUE]

\* The effects of one call, in the order they happen: lines written to the
\* console methods, and at most one throw (always last).
Write(sink, text) == [type |-> "write", what |-> sink, text |-> text]
Throw(name, text) == [type |-> "throw", what |-> name, text |-> text]

\* Logger.isDenoLoggingEnabled(): false when NO_LOG holds a non-empty value.
isDenoLoggingEnabled == ~TruthyStr(noLog)

\* The operand of `!Logger.isDenoLoggingEnabled` in canLog: the method itself,
\* not its result.  A function object is truthy whatever NO_LOG holds.
isDenoLoggingEnabledRef == TRUE

\* A gate that reads one enabled flag for all instances.
canLogSharedFlag(self, lvl) ==
    IF ~isDenoLoggingEnabledRef \/ ~isEnabled["logger"] THEN FALSE
    ELSE CASE levelOperator = EQUAL -> lvl = level
           [] levelOperator = GREATER_OR_EQUAL -> lvl >= level
           [] levelOperator = LESS_OR_EQUAL -> lvl <= level
           [] OTHER -> FALSE

\* canLog; a switch that matches no case returns undefined, which the caller
\* tests with `!` like false.
canLog(self, lvl) ==
    IF ~isDenoLoggingEnabledRef \/ ~isEnabled[self] THEN FALSE
    ELSE CASE levelOperator = EQUAL -> lvl = level
           [] levelOperator = GREATER_OR_EQUAL -> lvl >= level
           [] levelOperator = LESS_OR_EQUAL -> lvl <= level
           [] OTHER -> FALSE

\* sinkOf with the WARN case calling console.error.
sinkOfWarnToError(lvl) ==
    CASE lvl = DEBUG -> "debug"
      [] lvl = INFO -> "info"
      [] lvl = WARN -> "error"
      [] lvl = ERROR -> "error"
      [] lvl = FATAL -> "error"

\* The console method the switch of _log calls for a level.
sinkOf(lvl) ==
    CASE lvl = DEBUG -> "debug"
      [] lvl = INFO -> "info"
      [] lvl = WARN -> "warn"
      [] lvl = ERROR -> "error"
      [] lvl = FATAL -> "error"

\* emit with the throw placed before the console.error call: the line is never
\* written.
emitThrowFirst(message, throwOnError) ==
    IF message.level = FATAL \/ (message.level = ERROR /\ throwOnError)
    THEN <<Throw("Error", message.message)>>
    ELSE <<Write(sinkOf(message.level), message.formatted)>>

\* The switch of _log on an accepted message: the effects, in order.
emit(message, throwOnError) ==
    IF message.level = FATAL \/ (message.level = ERROR /\ throwOnError)
    THEN <<Write(sinkOf(message.level), message.formatted), Throw("Error", message.message)>>
    ELSE <<Write(sinkOf(message.level), message.formatted)>>

Threw(events) == Len(events) > 0 /\ events[Len(events)].type = "throw"

\* _log: the effects and the value returned (NoRecord for undefined, and when
\* the call throws).
_log(self, message, throwOnError) ==
    IF ~canLog(self, message.level)
    THEN [events |-> <<>>, ret |-> NoRecord]
    ELSE LET ev == emit(message, throwOnError)
         IN  [events |-> ev, ret |-> IF Threw(ev) THEN NoRecord ELSE message]

\* logMessage that formats the message again, under the alignment list of the
\* moment, before it hands it to _log.
logMessageRendersAgain(self, message, throwOnError) ==
    _log(self,
         [message EXCEPT !.formatted =
             formatMessage(alignmentCategories, self, message.level, message.message,
                           message.date, message.category, message.ctx)],
         throwOnError)

\* logMessage(message, throwOnError)
logMessage(self, message, throwOnError) == _log(self, message, throwOnError)

\* message(message, level, ctx) with `date` the instant new Date() reads: the
\* LogMessage, or the RangeError that formatMessage throws, when
\* Logger.alignmentCategories holds `align`.
messageUnder(align, self, text, lvl, ctx, date) ==
    IF formatMessageThrows(align, CategoryOf(self))
    THEN [events |-> <<Throw("RangeError", RangeErrorMessage)>>, ret |-> NoRecord]
    ELSE [events |-> <<>>,
          ret |-> LogMessageOf(text,
                               formatMessage(align, self, lvl, text, date, CategoryOf(self), ctx),
                               lvl, date, CategoryOf(self), ctx)]

\* message() that stamps the record with a second reading of the clock.
messageStampsAgain(self, text, lvl, ctx, date) ==
    LET built == messageUnder(alignmentCategories, self, text, lvl, ctx, date)
    IN  IF Threw(built.events) THEN built
        ELSE [built EXCEPT !.ret.date = date + 1]

message(self, text, lvl, ctx, date) ==
    messageUnder(alignmentCategories, self, text, lvl, ctx, date)

\* log(message, level, throwOnError, ctx): the message is built first, then
\* handed to logMessage.
log(self, text, lvl, throwOnError, ctx, date) ==
    LET built == message(self, text, lvl, ctx, date)
    IN  IF Threw(built.events) THEN built
        ELSE logMessage(self, built.ret, throwOnError)

(***************************************************************************)
(* Inputs                                                                  *)
(***************************************************************************)
MaxDate == 2

Dates == 1..MaxDate

Messages == { <<"h", "i">> }

Contexts ==
    { CtxUndefined,
      Num(0),
      Obj(<< <<<<"a">>, Num(1)>>, <<<<"b">>, Arr(<<Num(1), Num(2)>>)>> >>) }

\* Values stored in Logger.alignmentCategories: unset (or empty), a list whose
\* entries are all shorter than "Test", and a list that contains "Test".
AlignmentChoices ==
    { <<>>,
      << <<"D", "B">> >>,
      << <<"T", "e", "s", "t">>, <<"D", "a", "t", "a", "b", "a", "s", "e">> >> }

\* Values of the NO_LOG environment variable: unset, or "1".
NoLogChoices == { Undefined, <<"1">> }

\* The LogMessage objects a caller holds for logMessage: those that
\* message() built at the first instant, with an object for context, on any
\* instance, at any level, under any value of Logger.alignmentCategories.
Held ==
    { messageUnder(align, self, text, lvl, ctx, 1).ret :
        align \in AlignmentChoices, self \in Instances, text \in Messages,
        lvl \in LogLevel, ctx \in {c \in Contexts : isPlainObject(c)} } \ {NoRecord}

(***************************************************************************)
(* State machine                                                           *)
(***************************************************************************)
\* The call that has just completed, as its caller observes it: the entry
\* point and arguments, the effects, and the value returned.  Execution is
\* single-threaded and synchronous: a call completes (Return) before the
\* next operation starts.
CallOf(op, self, text, lvl, throwOnError, ctx, arg, result) ==
    [op |-> op, self |-> self, msg |-> text, level |-> lvl,
     throwOnError |-> throwOnError, ctx |-> ctx, arg |-> arg,
     events |-> result.events, ret |-> result.ret]

Idle ==
    [op |-> "idle", self |-> "logger", msg |-> <<>>, level |-> DEBUG,
     throwOnError |-> FALSE, ctx |-> CtxUndefined, arg |-> NoRecord,
     events |-> <<>>, ret |-> NoRecord]

Init ==
    /\ level = DEBUG
    /\ levelOperator = GREATER_OR_EQUAL
    /\ alignmentCategories = <<>>
    /\ isEnabled = [self \in Instances |-> TRUE]
    /\ noLog = Undefined
    /\ call = Idle

Static == <<level, levelOperator, alignmentCategories, isEnabled, noLog>>

SetLevel(lvl) ==
    /\ call = Idle
    /\ level' = lvl
    /\ UNCHANGED <<levelOperator, alignmentCategories, isEnabled, noLog, call>>

SetLevelOperator(op) ==
    /\ call = Idle
    /\ levelOperator' = op
    /\ UNCHANGED <<level, alignmentCategories, isEnabled, noLog, call>>

SetAlignmentCategories(list) ==
    /\ call = Idle
    /\ alignmentCategories' = list
    /\ UNCHANGED <<level, levelOperator, isEnabled, noLog, call>>

SetIsEnabled(self, flag) ==
    /\ call = Idle
    /\ isEnabled' = [isEnabled EXCEPT ![self] = flag]
    /\ UNCHANGED <<level, levelOperator, alignmentCategories, noLog, call>>

SetNoLog(value) ==
    /\ call = Idle
    /\ noLog' = value
    /\ UNCHANGED <<level, levelOperator, alignmentCategories, isEnabled, call>>

Log(self, text, lvl, throwOnError, ctx, date) ==
    /\ call = Idle
    /\ call' = CallOf("log", self, text, lvl, throwOnError, ctx, NoRecord,
                      log(self, text, lvl, throwOnError, ctx, date))
    /\ UNCHANGED Static

Debug(self, text, ctx, date) ==
    /\ call = Idle
    /\ call' = CallOf("debug", self, text, DEBUG, FALSE, ctx, NoRecord,
                      log(self, text, DEBUG, FALSE, ctx, date))
    /\ UNCHANGED Static

Info(self, text, ctx, date) ==
    /\ call = Idle
    /\ call' = CallOf("info", self, text, INFO, FALSE, ctx, NoRecord,
                      log(self, text, INFO, FALSE, ctx, date))
    /\ UNCHANGED Static

Warn(self, text, ctx, date) ==
    /\ call = Idle
    /\ call' = CallOf("warn", self, text, WARN, FALSE, ctx, NoRecord,
                      log(self, text, WARN, FALSE, ctx, date))
    /\ UNCHANGED Static

Error(self, text, throws, ctx, date) ==
    /\ call = Idle
    /\ call' = CallOf("error", self, text, ERROR, throws, ctx, NoRecord,
                      log(self, text, ERROR, throws, ctx, date))
    /\ UNCHANGED Static

\* fatal returns nothing: the value log returns is dropped.
Fatal(self, text, ctx, date) ==
    /\ call = Idle
    /\ call' = CallOf("fatal", self, text, FATAL, TRUE, ctx, NoRecord,
                      [events |-> log(self, text, FATAL, TRUE, ctx, date).events,
                       ret |-> NoRecord])
    /\ UNCHANGED Static

Message(self, text, lvl, ctx, date) ==
    /\ call = Idle
    /\ call' = CallOf("message", self, text, lvl, FALSE, ctx, NoRecord,
                      message(self, text, lvl, ctx, date))
    /\ UNCHANGED Static

\* logMessage on a LogMessage the caller holds.
LogMessage(self, held, throwOnError) ==
    /\ call = Idle
    /\ call' = CallOf("logMessage", self, held.message, held.level, throwOnError,
                      held.ctx, held, logMessage(self, held, throwOnError))
    /\ UNCHANGED Static

\* The completed call returns to its caller.
Return ==
    /\ call # Idle
    /\ call' = Idle
    /\ UNCHANGED Static

\* newline: console.log() with no argument.
Newline(self) ==
    /\ call = Idle
    /\ call' = CallOf("newline", self, <<>>, DEBUG, FALSE, CtxUndefined, NoRecord,
                      [events |-> <<Write("log", <<>>)>>, ret |-> NoRecord])
    /\ UNCHANGED Static

Next ==
    \/ \E lvl \in LogLevel : SetLevel(lvl)
    \/ \E op \in LogLevelOperator \cup {UNKNOWN_OPERATOR} : SetLevelOperator(op)
    \/ \E list \in AlignmentChoices : SetAlignmentCategories(list)
    \/ \E self \in Instances, flag \in BOOLEAN : SetIsEnabled(self, flag)
    \/ \E value \in NoLogChoices : SetNoLog(value)
    \/ \E self \in Instances, text \in Messages, lvl \in LogLevel, t \in BOOLEAN,
          ctx \in Contexts, date \in Dates : Log(self, text, lvl, t, ctx, date)
    \/ \E self \in Instances, text \in Messages, ctx \in Contexts, date \in Dates :
          Debug(self, text, ctx, date)
    \/ \E self \in Instances, text \in Messages, ctx \in Contexts, date \in Dates :
          Info(self, text, ctx, date)
    \/ \E self \in Instances, text \in Messages, ctx \in Contexts, date \in Dates :
          Warn(self, text, ctx, date)
    \/ \E self \in Instances, text \in Messages, t \in BOOLEAN, ctx \in Contexts,
          date \in Dates : Error(self, text, t, ctx, date)
    \/ \E self \in Instances, text \in Messages, ctx \in Contexts, date \in Dates :
          Fatal(self, text, ctx, date)
    \/ \E self \in Instances, text \in Messages, lvl \in LogLevel, ctx \in Contexts,
          date \in Dates : Message(self, text, lvl, ctx, date)
    \/ \E self \in Instances, held \in Held, t \in BOOLEAN : LogMessage(self, held, t)
    \/ \E self \in Instances : Newline(self)
    \/ Return

Spec == Init /\ [][Next]_vars

(***************************************************************************)
(* Rendering: message() and log() on every kind of instance, under every   *)
(* alignment list, with the filter state left as constructed.              *)
(***************************************************************************)
RenderInit ==
    /\ level = DEBUG
    /\ levelOperator = GREATER_OR_EQUAL
    /\ alignmentCategories = <<>>
    /\ isEnabled = [self \in RenderInstances |-> TRUE]
    /\ noLog = Undefined
    /\ call = Idle

\* The context values of the rendering runs: those of the inputs, and the
\* scalars false and "".
RenderContexts == Contexts \cup {Bool(FALSE), Str(<<>>)}

RenderNext ==
    \/ \E list \in AlignmentChoices : SetAlignmentCategories(list)
    \/ \E self \in RenderInstances, text \in Messages, lvl \in LogLevel,
          ctx \in RenderContexts, date \in Dates : Message(self, text, lvl, ctx, date)
    \/ \E self \in RenderInstances, text \in Messages, lvl \in LogLevel,
          ctx \in RenderContexts, date \in Dates : Log(self, text, lvl, FALSE, ctx, date)
    \/ Return

RenderSpec == RenderInit /\ [][RenderNext]_vars

(***************************************************************************)
(* Serialization: formatValue applied to every value of at most MaxSize    *)
(* nodes (a scalar or a container counts one node, plus the nodes of its   *)
(* entries), in both styles, at every depth up to MaxDepth.                *)
(***************************************************************************)
MaxSize == 4

MaxDepth == 2

Depths == 1..MaxDepth

Scalars == {Num(1), Num(2)}

KeyLetters == <<"a", "b", "c", "d", "e", "f", "g", "h">>

\* The entries of an object whose values are s: the i-th key is the i-th
\* letter.
Keyed(s) == [i \in 1..Len(s) |-> << <<KeyLetters[i]>>, s[i] >>]

RECURSIVE ValuesOfSize(_)
RECURSIVE SeqsOfSize(_)

\* The sequences of values with n nodes in all.
SeqsOfSize(n) ==
    IF n = 0 THEN {<<>>}
    ELSE UNION { { <<v>> \o s : v \in ValuesOfSize(k), s \in SeqsOfSize(n - k) } : k \in 1..n }

\* The values with exactly n nodes.
ValuesOfSize(n) ==
    IF n = 1 THEN Scalars \cup {Arr(<<>>), Obj(<<>>)}
    ELSE {Arr(s) : s \in SeqsOfSize(n - 1)} \cup {Obj(Keyed(s)) : s \in SeqsOfSize(n - 1)}

\* { a: 1, b: [1, 2] } and { x: 1 }
ExampleValue == Obj(<< <<<<"a">>, Num(1)>>, <<<<"b">>, Arr(<<Num(1), Num(2)>>)>> >>)

ExampleSmall == Obj(<< <<<<"x">>, Num(1)>> >>)

\* The values formatValue is applied to: all values of at most MaxSize nodes,
\* and the two examples.
Values == UNION {ValuesOfSize(n) : n \in 1..MaxSize} \cup {ExampleValue, ExampleSmall}

\* A call of formatValue about to run: its arguments.
FormatValueInput(value, compact, depth) ==
    [op |-> "input", value |-> value, compact |-> compact, depth |-> depth, ret |-> <<>>]

SerializeInit ==
    /\ level = DEBUG
    /\ levelOperator = GREATER_OR_EQUAL
    /\ alignmentCategories = <<>>
    /\ isEnabled = [self \in Instances |-> TRUE]
    /\ noLog = Undefined
    /\ call \in {FormatValueInput(value, compact, depth) :
                    value \in Values, compact \in BOOLEAN, depth \in Depths}

\* formatValue(value, compact, depth) runs and returns its text.
FormatValue ==
    /\ call.op = "input"
    /\ call' = [call EXCEPT !.op = "formatValue",
                            !.ret = formatValue(call.value, call.compact, call.depth)]
    /\ UNCHANGED Static

SerializeNext == FormatValue

SerializeSpec == SerializeInit /\ [][SerializeNext]_vars

(***************************************************************************)
(* Properties                                                              *)
(***************************************************************************)
\* The entry points that log a message.
LoggingOps == {"log", "debug", "info", "warn", "error", "fatal", "logMessage"}

IsLoggingCall == call.op \in LoggingOps

\* The positions of the console writes among the effects of the call.
Writes == {i \in 1..Len(call.events) : call.events[i].type = "write"}

\* The call ended in a throw; the thrown error is its last effect.
CallThrew == Threw(call.events)

Thrown == call.events[Len(call.events)]

\* The call raised the escalation error (new Error(...)), as opposed to an
\* error of the runtime.
Escalated == CallThrew /\ Thrown.what = "Error"

\* The call returned undefined, silently: no effect at all.
ReturnedUndefined == call.events = <<>> /\ call.ret = NoRecord

\* The comparison the specification gives for each operator.
Compare(S, T, op) ==
    CASE op = EQUAL -> S = T
      [] op = GREATER_OR_EQUAL -> S >= T
      [] op = LESS_OR_EQUAL -> S <= T

\* The stream the specification gives for each severity.
StreamOf(S) ==
    CASE S = DEBUG -> "debug"
      [] S = INFO -> "info"
      [] S = WARN -> "warn"
      [] S \in {ERROR, FATAL} -> "error"

\* The texts that rendering the arguments of the call can give (one for each
\* instant the clock may show); for logMessage, the text the message carries.
RenderedTexts ==
    IF call.op = "logMessage" THEN {call.arg.formatted}
    ELSE {formatMessage(alignmentCategories, call.self, call.level, call.msg, date,
                        CategoryOf(call.self), call.ctx) : date \in Dates}

\* The escalation rule of the specification.
MustEscalate == call.level = FATAL \/ (call.level = ERROR /\ call.throwOnError)

\* C1: with the instance enabled, the kill switch not set and one of the
\* three operators in force, a logging call at severity S emits (writes to a
\* sink and, unless it escalates, returns a record) if and only if S compares
\* to the threshold as the operator says; otherwise it returns undefined.
C1_EmitsIffCompare ==
    (/\ IsLoggingCall
     /\ isEnabled[call.self]
     /\ isDenoLoggingEnabled
     /\ levelOperator \in LogLevelOperator)
    => IF Compare(call.level, level, levelOperator)
       THEN /\ Writes # {}
            /\ (~Escalated /\ call.op # "fatal") => call.ret # NoRecord
       ELSE ReturnedUndefined

\* C2: while the kill switch reports logging disabled, no logging call writes
\* to a sink or returns a record.
C2_KillSwitchSuppresses ==
    (IsLoggingCall /\ ~isDenoLoggingEnabled) => (Writes = {} /\ call.ret = NoRecord)

\* C3: every call to fatal raises an error that carries the raw message, in
\* every filter state.
C3_FatalAlwaysRaises ==
    (call.op = "fatal") => (CallThrew /\ Thrown.text = call.msg)

\* The gate of the specification rejects the call: instance disabled, kill
\* switch set, or severity excluded by threshold and operator.
SpecGateRejects ==
    \/ ~isEnabled[call.self]
    \/ ~isDenoLoggingEnabled
    \/ (levelOperator \in LogLevelOperator /\ ~Compare(call.level, level, levelOperator))

\* C4: a logging call that the gate rejects returns undefined, writes to no
\* sink and raises no error, whatever the entry point, the logger and the
\* alignment list.
C4_RejectionIsSilent ==
    (IsLoggingCall /\ SpecGateRejects) => ReturnedUndefined

\* C5: when a logging call raises the escalation error, the rendered line was
\* written to the error stream exactly once, before the throw, and the error
\* carries the raw message, not the rendered text.
C5_WriteBeforeEscalation ==
    (IsLoggingCall /\ Escalated)
    => /\ MustEscalate
       /\ Len(call.events) = 2
       /\ call.events[1].type = "write"
       /\ call.events[1].what = "error"
       /\ call.events[1].text \in RenderedTexts
       /\ Thrown.text = call.msg
       /\ Thrown.text # call.events[1].text

\* C5 witness: error(message, true) wrote its line and then raised.
C5_Witness ==
    /\ call.op = "error"
    /\ call.throwOnError
    /\ Escalated
    /\ Writes = {1}

\* C6: debug, info, warn, and error without the throw flag never raise.
C6_NonThrowingEntryPoints ==
    (call.op \in {"debug", "info", "warn"} \/ (call.op = "error" /\ ~call.throwOnError))
    => ~CallThrew

\* C7: on an instance whose enabled flag is false every logging call returns
\* undefined and writes nothing; on an instance whose flag is true (again) the
\* call is decided by severity, threshold and operator alone (kill switch not
\* set, one of the three operators in force).
C7_DisabledSuppresses ==
    IsLoggingCall
    => IF ~isEnabled[call.self]
       THEN ReturnedUndefined
       ELSE (levelOperator \in LogLevelOperator /\ isDenoLoggingEnabled)
            => ((Writes # {}) <=> Compare(call.level, level, levelOperator))

\* The gate ran and accepted the call: the message was built and canLog
\* returned true.
Accepted ==
    /\ IsLoggingCall
    /\ ~(CallThrew /\ Thrown.what = "RangeError")
    /\ canLog(call.self, call.level)

\* C8: an accepted logging call writes exactly one line, to the stream of its
\* severity and to no other, and the line is the rendered text of the record.
C8_OneLineToOwnStream ==
    Accepted
    => /\ Writes = {1}
       /\ call.events[1].what = StreamOf(call.level)
       /\ call.events[1].text \in RenderedTexts
       /\ call.ret # NoRecord => call.events[1].text = call.ret.formatted

\* C8 witness: an accepted warn call has written its line.
C8_Witness ==
    /\ call.op = "warn"
    /\ Accepted
    /\ call.ret # NoRecord
    /\ call.events = <<Write("warn", call.ret.formatted)>>

\* C9: message() returns a record in every filter state, with no effect: no
\* sink written, no error raised.
C9_MessageIsPureConstruction ==
    (call.op = "message") => (call.events = <<>> /\ call.ret # NoRecord)

\* C9, frame: no step of message() changes the threshold, the operator, the
\* alignment list or an enabled flag.
C9_MessageFrame ==
    [][(call'.op = "message" /\ call.op = "idle")
        => (level' = level /\ levelOperator' = levelOperator
            /\ alignmentCategories' = alignmentCategories /\ isEnabled' = isEnabled)]_vars

\* C10: logMessage decides on the filter state of the moment (threshold,
\* operator and enabled flag as they are when it is called; kill switch not
\* set, one of the three operators in force); if it accepts, it writes the
\* text the message already carries, once, to the stream of its severity,
\* escalates as log does (FATAL always, ERROR with throwOnError), and
\* otherwise returns the very message it was given; if it rejects, it returns
\* undefined with no effect.
C10_LogMessageUsesCurrentGate ==
    (call.op = "logMessage")
    => /\ (levelOperator \in LogLevelOperator /\ isDenoLoggingEnabled)
          => ((Writes # {}) <=> (isEnabled[call.self]
                                  /\ Compare(call.arg.level, level, levelOperator)))
       /\ IF Writes # {}
          THEN /\ Writes = {1}
               /\ call.events[1] = Write(StreamOf(call.arg.level), call.arg.formatted)
               /\ CallThrew <=> MustEscalate
               /\ CallThrew => (Len(call.events) = 2 /\ Thrown = Throw("Error", call.arg.message))
               /\ ~CallThrew => (Len(call.events) = 1 /\ call.ret = call.arg)
          ELSE ReturnedUndefined

\* C10 witness: an accepted logMessage on a message that was rendered under
\* another alignment list than the one now in force.
C10_Witness ==
    /\ call.op = "logMessage"
    /\ Writes = {1}
    /\ call.ret = call.arg
    /\ ~formatMessageThrows(alignmentCategories, CategoryOf(call.self))
    /\ call.arg.category = CategoryOf(call.self)
    /\ call.arg.formatted #
          formatMessage(alignmentCategories, call.self, call.arg.level, call.arg.message,
                        call.arg.date, call.arg.category, call.arg.ctx)

\* C11: when the operator holds a value other than EQUAL, GREATER_OR_EQUAL
\* and LESS_OR_EQUAL, a logging call raises an error: it writes to no sink
\* and it does not return undefined without a trace.
C11_UnknownOperatorFailsFast ==
    (IsLoggingCall /\ levelOperator \notin LogLevelOperator)
    => (CallThrew /\ Writes = {})

\* The entry points that build the record they return.
BuildingOps == {"log", "debug", "info", "warn", "error", "message"}

\* C12: every record a logging call or message() returns is self-consistent:
\* its raw message, severity and context are the arguments of the call, its
\* category is the category of the logger, and its rendered text is the
\* rendering of these very fields and of the record's own timestamp under the
\* options of the logger and the alignment list in force; logMessage returns
\* the record it was given, untouched.
C12_RecordSelfConsistent ==
    /\ (call.op \in BuildingOps /\ call.ret # NoRecord)
       => /\ call.ret.message = call.msg
          /\ call.ret.level = call.level
          /\ call.ret.ctx = call.ctx
          /\ call.ret.category = CategoryOf(call.self)
          /\ call.ret.date \in Dates
          /\ call.ret.formatted =
                formatMessage(alignmentCategories, call.self, call.ret.level,
                              call.ret.message, call.ret.date, call.ret.category,
                              call.ret.ctx)
    /\ (call.op = "logMessage" /\ call.ret # NoRecord) => call.ret = call.arg

\* C12 witness: info on the logger that shows the timestamp returned a record
\* stamped with a later instant than the first, with a context.
C12_Witness ==
    /\ call.op = "info"
    /\ call.self = "logger"
    /\ call.ret # NoRecord
    /\ call.ret.date > 1
    /\ isPlainObject(call.ret.ctx)

\* part occurs in text at index i.
Occurs(text, part, i) ==
    /\ i >= 1
    /\ i + Len(part) - 1 <= Len(text)
    /\ SubSeq(text, i, i + Len(part) - 1) = part

Contains(text, part) == \E i \in 1..Len(text) : Occurs(text, part, i)

\* The index at which part first occurs in text.
IndexOf(text, part) ==
    CHOOSE i \in 1..Len(text) :
        Occurs(text, part, i) /\ \A j \in 1..(i - 1) : ~Occurs(text, part, j)

\* part is the text that ends right before index i.
EndsBefore(text, part, i) == Occurs(text, part, i - Len(part))

DoubleColon == <<":", ":">>

\* The colorized message text of the call, as the rendered text carries it.
MessageText == Colour(colorizer(call.level), call.msg)

\* C13: in the rendered text of a returned record the colorized message text
\* is preceded by the configured delimiter: by " :: " on a logger built
\* without a messageDelimiter option; by " D " on a logger built with a
\* non-empty delimiter D, and then the text does not contain "::"; by a
\* single space on a logger built with messageDelimiter undefined, and then
\* the text does not contain "::" either.
C13_DelimiterIsTheConfiguredOne ==
    (call.op \in BuildingOps /\ call.ret # NoRecord)
    => LET text == call.ret.formatted
           given == GivenOptions(call.self)
       IN  /\ Contains(text, MessageText)
           /\ LET i == IndexOf(text, MessageText)
              IN  IF "messageDelimiter" \notin DOMAIN given
                  THEN EndsBefore(text, <<" ">> \o DoubleColon \o <<" ">>, i)
                  ELSE IF TruthyStr(given["messageDelimiter"])
                  THEN /\ EndsBefore(text, <<" ">> \o given["messageDelimiter"] \o <<" ">>, i)
                       /\ ~Contains(text, DoubleColon)
                  ELSE /\ EndsBefore(text, <<" ">>, i)
                       /\ alignmentCategories = <<>> => ~EndsBefore(text, <<" ", " ">>, i)
                       /\ ~Contains(text, DoubleColon)

\* C13 witness: log on the logger built with messageDelimiter undefined
\* returned a record rendered with a context.
C13_Witness ==
    /\ call.op = "log"
    /\ call.self = "plain"
    /\ call.ret # NoRecord
    /\ isPlainObject(call.ret.ctx)
    /\ ~Contains(call.ret.formatted, DoubleColon)

RECURSIVE Join(_, _)
\* The texts of parts with sep between each two of them.
Join(parts, sep) ==
    IF parts = <<>> THEN <<>>
    ELSE IF Len(parts) = 1 THEN parts[1]
    ELSE parts[1] \o sep \o Join(Tail(parts), sep)

RECURSIVE CompactReference(_)
\* The compact reference format: "{ k1: v1, k2: v2 }", "{ }" when empty,
\* "[e1, e2]", scalars in their display form.
CompactReference(v) ==
    IF v.t = "obj"
    THEN IF v.pairs = <<>> THEN <<"{", " ", "}">>
         ELSE <<"{", " ">>
              \o Join([i \in 1..Len(v.pairs) |->
                          v.pairs[i][1] \o <<":", " ">> \o CompactReference(v.pairs[i][2])],
                      <<",", " ">>)
              \o <<" ", "}">>
    ELSE IF v.t = "arr"
    THEN <<"[">> \o Join([i \in 1..Len(v.items) |-> CompactReference(v.items[i])],
                         <<",", " ">>) \o <<"]">>
    ELSE String(v)

ExampleCompact ==
    <<"{", " ", "a", ":", " ", "1", ",", " ", "b", ":", " ",
      "[", "1", ",", " ", "2", "]", " ", "}">>

\* C14: the compact serialization of every value is the compact reference
\* format; {a: 1, b: [1, 2]} gives "{ a: 1, b: [1, 2] }" and the empty
\* mapping gives "{ }".
C14_CompactIsReference ==
    (call.op = "formatValue" /\ call.compact)
    => /\ call.ret = CompactReference(call.value)
       /\ call.value = ExampleValue => call.ret = ExampleCompact
       /\ call.value = Obj(<<>>) => call.ret = <<"{", " ", "}">>

\* C14 witness: the example value was serialized in the compact style.
C14_Witness ==
    /\ call.op = "formatValue"
    /\ call.compact
    /\ call.value = ExampleValue
    /\ call.ret = ExampleCompact

RECURSIVE Concat(_)
Concat(parts) == IF parts = <<>> THEN <<>> ELSE parts[1] \o Concat(Tail(parts))

IsContainer(v) == isPlainObject(v) \/ isArray(v)

EntryCount(v) == IF isPlainObject(v) THEN Len(v.pairs) ELSE Len(v.items)

EntryValue(v, i) == IF isPlainObject(v) THEN v.pairs[i][2] ELSE v.items[i]

OpenBracket(v) == IF isPlainObject(v) THEN "{" ELSE "["

CloseBracket(v) == IF isPlainObject(v) THEN "}" ELSE "]"

RECURSIVE IndentedReference(_, _)
\* The indented reference format at depth d: the opening bracket, each entry
\* on a line of its own after 2*d spaces, a comma after all but the last, the
\* closing bracket after 2*(d-1) spaces; entries are rendered at depth d+1.
IndentedReference(v, d) ==
    IF ~IsContainer(v) THEN String(v)
    ELSE LET n == EntryCount(v)
             entry(i) == (IF isPlainObject(v) THEN v.pairs[i][1] \o <<":", " ">> ELSE <<>>)
                         \o IndentedReference(EntryValue(v, i), d + 1)
         IN  <<OpenBracket(v), "\n">>
             \o Concat([i \in 1..n |->
                           Spaces(2 * d) \o entry(i)
                           \o (IF i < n THEN <<",">> ELSE <<>>) \o <<"\n">>])
             \o Spaces(2 * (d - 1)) \o <<CloseBracket(v)>>

RECURSIVE Lines(_)
\* The lines of a text: what stands between its line feeds.
Lines(text) ==
    IF ~Contains(text, <<"\n">>) THEN <<text>>
    ELSE LET i == IndexOf(text, <<"\n">>)
         IN  <<SubSeq(text, 1, i - 1)>> \o Lines(SubSeq(text, i + 1, Len(text)))

\* The number of spaces a line starts with.
LeadingSpaces(line) ==
    Cardinality({k \in 1..Len(line) : \A j \in 1..k : line[j] = " "})

ExampleSmallIndented == <<"{", "\n", " ", " ", "x", ":", " ", "1", "\n", "}">>

\* C15: the indented serialization at depth d of a mapping or sequence is the
\* indented reference format: the first line is the opening bracket, the last
\* line is 2*(d-1) spaces and the closing bracket, every line between starts
\* with at least 2*d spaces, and the lines that start with exactly 2*d spaces
\* are the first lines of the entries and the closing lines of the entries
\* that are mappings or sequences (these are rendered at depth d+1);
\* {x: 1} at depth 1 gives "{\n  x: 1\n}".
C15_IndentedIsReference ==
    (call.op = "formatValue" /\ ~call.compact /\ IsContainer(call.value))
    => LET v == call.value
           d == call.depth
           lines == Lines(call.ret)
           last == Len(lines)
           nested == {i \in 1..EntryCount(v) : IsContainer(EntryValue(v, i))}
       IN  /\ call.ret = IndentedReference(v, d)
           /\ last >= 2
           /\ lines[1] = <<OpenBracket(v)>>
           /\ lines[last] = Spaces(2 * (d - 1)) \o <<CloseBracket(v)>>
           /\ \A k \in 2..(last - 1) : LeadingSpaces(lines[k]) >= 2 * d
           /\ Cardinality({k \in 2..(last - 1) : LeadingSpaces(lines[k]) = 2 * d})
                 = EntryCount(v) + Cardinality(nested)
           /\ (v = ExampleSmall /\ d = 1) => call.ret = ExampleSmallIndented

\* C15 witness: { a: 1, b: [1, 2] } was serialized in the indented style at
\* depth 2, on seven lines.
C15_Witness ==
    /\ call.op = "formatValue"
    /\ ~call.compact
    /\ call.value = ExampleValue
    /\ call.depth = 2
    /\ Len(Lines(call.ret)) = 7

ColourNames == {"cyan", "blue", "yellow", "red", "white", "gray"}

\* The escape codes: they take no column on the terminal.
ColourTokens == {"<" \o n \o ">" : n \in ColourNames} \cup {"</" \o n \o ">" : n \in ColourNames}

\* The delimiter segment a logger writes before the message text.
DelimiterSegment(self) ==
    IF TruthyStr(options(self)["messageDelimiter"])
    THEN <<" ">> \o options(self)["messageDelimiter"] \o <<" ">>
    ELSE <<" ">>

\* The index at which the message body (delimiter segment, then colorized
\* message text) starts in a text rendered by self at severity lvl.
BodyStart(text, self, lvl, msg) ==
    IndexOf(text, Colour(colorizer(lvl), msg)) - Len(DelimiterSegment(self))

\* The number of spaces that end right before index b.
SpacesBefore(text, b) ==
    Cardinality({k \in 1..(b - 1) : \A j \in (b - k)..(b - 1) : text[j] = " "})

\* The column of index b: the characters before it, escape codes left out.
Column(text, b) == Cardinality({k \in 1..(b - 1) : text[k] \notin ColourTokens})

HasCategory(self) == CategoryOf(self) # Undefined /\ CategoryOf(self) # <<>>

\* The category of the logger is absent, or a member of the alignment list.
Alignable(self) ==
    \/ ~HasCategory(self)
    \/ \E i \in 1..Len(alignmentCategories) : alignmentCategories[i] = CategoryOf(self)

LongestCategory == SetMax({Len(alignmentCategories[i]) : i \in 1..Len(alignmentCategories)})

\* The column at which the body starts in what `other` renders at lvl, date.
ColumnOf(other, lvl, date) ==
    LET text == formatMessage(alignmentCategories, other, lvl, call.msg, date,
                              CategoryOf(other), CtxUndefined)
    IN  Column(text, BodyStart(text, other, lvl, call.msg))

\* The record of the call was rendered under a configured alignment list.
RenderedAligned ==
    /\ call.op \in BuildingOps
    /\ call.ret # NoRecord
    /\ Len(alignmentCategories) > 0

CallColumn ==
    Column(call.ret.formatted,
           BodyStart(call.ret.formatted, call.self, call.level, call.msg))

\* The padding of the record of the call is the one the specification gives.
PaddingAsSpecified ==
    SpacesBefore(call.ret.formatted,
                 BodyStart(call.ret.formatted, call.self, call.level, call.msg))
       = IF HasCategory(call.self)
         THEN LongestCategory - Len(CategoryOf(call.self))
         ELSE LongestCategory + 3

\* C16 as stated: under a configured alignment list the padding is
\* maxLength(list) - len(category) with a category and maxLength(list) + 3
\* without, and the body starts at the same column for all loggers whose
\* category is absent or in the list, at all severities.
C16_SameColumnForAllLoggers ==
    RenderedAligned
    => /\ PaddingAsSpecified
       /\ Alignable(call.self)
          => \A other \in RenderInstances, lvl \in LogLevel, date \in Dates :
                Alignable(other) => ColumnOf(other, lvl, date) = CallColumn

\* C16, amended: the same, the equal column holding among the loggers that
\* share the timestamp format.
C16_SameColumnForSameTimestampFormat ==
    RenderedAligned
    => /\ PaddingAsSpecified
       /\ Alignable(call.self)
          => \A other \in RenderInstances, lvl \in LogLevel, date \in Dates :
                (/\ Alignable(other)
                 /\ options(other)["timestampFormat"] = options(call.self)["timestampFormat"])
                => ColumnOf(other, lvl, date) = CallColumn

\* C16 witness: a logger without category rendered under the list
\* ["Test", "Database"]: eleven spaces of padding, and the body at the column
\* at which the logger "Database" starts it.
C16_Witness ==
    /\ RenderedAligned
    /\ call.self = "plain"
    /\ LongestCategory = 8
    /\ SpacesBefore(call.ret.formatted,
                    BodyStart(call.ret.formatted, call.self, call.level, call.msg)) = 11
    /\ ColumnOf("db", ERROR, 1) = CallColumn

\* part is the end of text.
EndsWith(text, part) == Occurs(text, part, (Len(text) - Len(part)) + 1)

\* The context segment the specification gives: the separator, then the
\* serialized context in gray.
ContextSegment(self, ctx) ==
    DelimiterSegment(self) \o Colour("gray", formatValue(ctx, compactContext(self), 1))

\* C17: the record of a logging call holds the context it was given; when a
\* context was supplied (the scalars 0, false and "" included) the rendered
\* text ends with the separator and the serialized context, and when none was
\* supplied the text ends with the message text.
C17_SuppliedContextIsRendered ==
    (call.op \in BuildingOps /\ call.ret # NoRecord)
    => /\ call.ret.ctx = call.ctx
       /\ IF call.ctx # CtxUndefined
          THEN EndsWith(call.ret.formatted, ContextSegment(call.self, call.ctx))
          ELSE EndsWith(call.ret.formatted, MessageText)

\* The gate of the specification under the values of the moment: the
\* instance's own flag, the shared threshold and the shared operator.
GateNow(self, lvl) == isEnabled[self] /\ Compare(lvl, level, levelOperator)

\* Every decision of the gate follows the threshold and operator in force
\* and the flag of the instance called, and of no other instance.
DecidedOnCurrentValues ==
    (IsLoggingCall /\ levelOperator \in LogLevelOperator /\ isDenoLoggingEnabled)
    => /\ Writes # {} => GateNow(call.self, call.level)
       /\ ReturnedUndefined => ~GateNow(call.self, call.level)

\* A change of the flag of one instance leaves the decision of the gate of
\* every other instance as it was.
FlagOfOneInstanceIsItsOwn ==
    \A self \in Instances :
        (isEnabled'[self] # isEnabled[self])
        => \A other \in Instances \ {self}, lvl \in LogLevel :
              canLog(other, lvl)' = canLog(other, lvl)

\* A logging call, or newline, leaves threshold, operator, alignment list and
\* every enabled flag as they were.
CallsChangeNoConfiguration ==
    (call.op = "idle" /\ call'.op \in LoggingOps \cup {"newline"})
    => /\ level' = level
       /\ levelOperator' = levelOperator
       /\ alignmentCategories' = alignmentCategories
       /\ isEnabled' = isEnabled

\* C18: threshold and operator are shared, the enabled flag is not: every
\* call on every instance is gated by the threshold and operator of the
\* moment and by its own flag; setting the flag of one instance changes the
\* gate of no other; and no logging call (log, debug, info, warn, error,
\* fatal, logMessage, newline) changes threshold, operator, alignment list
\* or a flag.
C18_SharedFilterOwnFlag ==
    /\ []DecidedOnCurrentValues
    /\ [][FlagOfOneInstanceIsItsOwn /\ CallsChangeNoConfiguration]_vars

\* C18 witness: with threshold and operator changed and the first instance
\* disabled, a call on the second instance was emitted.
C18_Witness ==
    /\ IsLoggingCall
    /\ call.self = "bare"
    /\ Writes # {}
    /\ ~isEnabled["logger"]
    /\ level = WARN
    /\ levelOperator = LESS_OR_EQUAL

====
